---- MODULE Spec2Model ----
(***************************************************************************)
(* Model of the customer-support agent: the in-memory Ledger               *)
(* (database.py), the Business Operations over it (functions.py), the      *)
(* Attempt Tracker (state.py), the administrative command surface and the  *)
(* Dialogue Controller, CustomerSupportAgent.chat (agent.py).              *)
(*                                                                         *)
(* Conventions                                                             *)
(*  - a Python dict is a function whose DOMAIN is the set of keys present; *)
(*  - Python None is the string "None";                                    *)
(*  - a money amount (a Python float) is a record: [kind |-> "num",        *)
(*    cents |-> n] for the number n/100, or [kind |-> "nan"] for the float *)
(*    NaN, for which every ordering comparison is false;                   *)
(*  - datetime.now().strftime(...) is the fixed string Today;              *)
(*  - the free-text "message" of a result that formats an amount is left   *)
(*    out of the result record; every other key of a result is modelled.   *)
(***************************************************************************)
EXTENDS FiniteSets, Integers, Sequences, TLC

VARIABLES
    db,                        \* database.db: [orders, returns, refunds]
    attempts_by_problem,       \* AgentState.attempts_by_problem
    current_order_id,          \* AgentState.current_order_id
    current_problem_category,  \* AgentState.current_problem_category
    last,                      \* the most recent call: [op, via, args, result]
    pre,                       \* the Ledger as it was when that call started
    inputs,                    \* the sample orders this run's callers ask about
    streak,                    \* per key: record_attempt calls since the key's last reset
    conversation_history,      \* CustomerSupportAgent.conversation_history
    pc,                        \* where chat stands in the current turn
    turn,                      \* the locals of the current (or last finished) call of chat
    steps                      \* inputs the interactive loop has read so far

vars == <<db, attempts_by_problem, current_order_id, current_problem_category,
          last, pre, inputs, streak, conversation_history, pc, turn, steps>>

(***************************************************************************)
(* Bounds of the model.                                                    *)
(***************************************************************************)
\* how many existing orders the callers of one run ask about
NumOrderInputs == 2
\* record_attempt is called on one key at most this many times in a row
MaxAttempts == 4
\* how many inputs (messages, reset, admin commands) the interactive loop reads
MaxInputs == 3

(***************************************************************************)
(* Python dict helpers.                                                    *)
(***************************************************************************)
None == "None"

EmptyDict == [k \in {} |-> None]

Has(d, k) == k \in DOMAIN d

Put(d, k, v) == [x \in (DOMAIN d) \cup {k} |-> IF x = k THEN v ELSE d[x]]

Del(d, k) == [x \in (DOMAIN d) \ {k} |-> d[x]]

GetOr(d, k, default) == IF Has(d, k) THEN d[k] ELSE default

(***************************************************************************)
(* Amounts.                                                                *)
(***************************************************************************)
Num(c) == [kind |-> "num", cents |-> c]

NaN == [kind |-> "nan", cents |-> 0]

\* Python's  amount > dollars  on a float
GreaterThan(amount, dollars) ==
    amount.kind = "num" /\ amount.cents > dollars * 100

Today == "today"

(***************************************************************************)
(* database.py                                                             *)
(***************************************************************************)
SampleOrders == <<
    [order_id |-> "12345", status |-> "shipped",    total |-> Num(8999)],
    [order_id |-> "67890", status |-> "processing", total |-> Num(4550)],
    [order_id |-> "11111", status |-> "delivered",  total |-> Num(12999)],
    [order_id |-> "22222", status |-> "shipped",    total |-> Num(19999)],
    [order_id |-> "33333", status |-> "processing", total |-> Num(7500)],
    [order_id |-> "44444", status |-> "delivered",  total |-> Num(29999)],
    [order_id |-> "55555", status |-> "shipped",    total |-> Num(14999)],
    [order_id |-> "66666", status |-> "processing", total |-> Num(22550)],
    [order_id |-> "77777", status |-> "delivered",  total |-> Num(8999)],
    [order_id |-> "88888", status |-> "shipped",    total |-> Num(34999)] >>

\* the orders dict after the loop  self.orders[order["order_id"]] = order
initialize_sample_data ==
    LET ids == {SampleOrders[i].order_id : i \in 1..Len(SampleOrders)}
    IN  [id \in ids |->
            LET i == CHOOSE j \in 1..Len(SampleOrders) :
                        /\ SampleOrders[j].order_id = id
                        /\ \A k \in (j+1)..Len(SampleOrders) :
                               SampleOrders[k].order_id # id
            IN  SampleOrders[i]]

\* InMemoryDatabase.__init__
InMemoryDatabase ==
    [orders |-> initialize_sample_data, returns |-> EmptyDict, refunds |-> EmptyDict]

\* a reset that re-seeds the orders and empties the returns but keeps the refunds
reset_keeping_refunds(d) ==
    [d EXCEPT !.orders = initialize_sample_data, !.returns = EmptyDict]

\* a reset that empties the returns and the refunds but keeps the orders as they are
reset_keeping_orders(d) ==
    [d EXCEPT !.returns = EmptyDict, !.refunds = EmptyDict]

\* InMemoryDatabase.reset
reset(d) ==
    [orders |-> initialize_sample_data, returns |-> EmptyDict, refunds |-> EmptyDict]

RetId(order_id) == "RET-" \o order_id

RefId(order_id) == "REF-" \o order_id

\* an update that writes no status
update_order_status_ignored(d, order_id, new_status) == d

update_order_status(d, order_id, new_status) ==
    IF Has(d.orders, order_id)
    THEN [d EXCEPT !.orders[order_id].status = new_status]
    ELSE d

create_return(d, order_id, reason) ==
    [d EXCEPT !.returns = Put(d.returns, RetId(order_id),
        [return_id         |-> RetId(order_id),
         order_id          |-> order_id,
         status            |-> "pending_receipt",
         reason            |-> reason,
         initiated_date    |-> Today,
         received_date     |-> None,
         inspection_result |-> None,
         refund_id         |-> None])]

\* update_return_status(return_id, new_status)
update_return_status(d, return_id, new_status) ==
    IF Has(d.returns, return_id)
    THEN [d EXCEPT !.returns[return_id].status = new_status]
    ELSE d

\* update_return_status(return_id, new_status, received_date=..., inspection_result=...)
update_return_received(d, return_id, new_status, received_date, inspection_result) ==
    IF Has(d.returns, return_id)
    THEN [d EXCEPT !.returns[return_id].status = new_status,
                   !.returns[return_id].received_date = received_date,
                   !.returns[return_id].inspection_result = inspection_result]
    ELSE d

\* an update that writes the status and leaves refund_id as it was
update_return_refund_dropped(d, return_id, new_status, refund_id) ==
    IF Has(d.returns, return_id)
    THEN [d EXCEPT !.returns[return_id].status = new_status]
    ELSE d

\* update_return_status(return_id, new_status, refund_id=...)
update_return_refund(d, return_id, new_status, refund_id) ==
    IF Has(d.returns, return_id)
    THEN [d EXCEPT !.returns[return_id].status = new_status,
                   !.returns[return_id].refund_id = refund_id]
    ELSE d

\* the status a new Refund gets:  "pending_return" if return_id else "processing"
\* (None and the empty string are falsy)
NewRefundStatus(return_id) ==
    IF return_id # None /\ return_id # "" THEN "pending_return" ELSE "processing"

create_refund(d, order_id, amount, reason, return_id) ==
    [d EXCEPT !.refunds = Put(d.refunds, RefId(order_id),
        [refund_id      |-> RefId(order_id),
         order_id       |-> order_id,
         amount         |-> amount,
         reason         |-> reason,
         status         |-> NewRefundStatus(return_id),
         initiated_date |-> Today,
         completed_date |-> None,
         return_id      |-> return_id])]

\* update_refund_status(refund_id, new_status)
update_refund_status(d, refund_id, new_status) ==
    IF Has(d.refunds, refund_id)
    THEN [d EXCEPT !.refunds[refund_id].status = new_status]
    ELSE d

\* a completion that records the date but not the status
update_refund_date_only(d, refund_id, new_status, completed_date) ==
    IF Has(d.refunds, refund_id)
    THEN [d EXCEPT !.refunds[refund_id].completed_date = completed_date]
    ELSE d

\* update_refund_status(refund_id, new_status, completed_date=...)
update_refund_completed(d, refund_id, new_status, completed_date) ==
    IF Has(d.refunds, refund_id)
    THEN [d EXCEPT !.refunds[refund_id].status = new_status,
                   !.refunds[refund_id].completed_date = completed_date]
    ELSE d

(***************************************************************************)
(* functions.py: each Business Operation maps a Ledger and its arguments   *)
(* to the Ledger it leaves and the result record it returns.               *)
(***************************************************************************)
\* the auto-approval threshold of initiate_refund, in dollars
SupervisorLimit == 500

Ret(d, result) == [db |-> d, result |-> result]

\* a status check that builds its result in the order's own dict
check_order_status_in_place(d, order_id) ==
    IF ~Has(d.orders, order_id)
    THEN Ret(d, [error   |-> "Order " \o order_id \o " not found in our system",
                 success |-> FALSE])
    ELSE LET return_id == RetId(order_id)
             refund_id == RefId(order_id)
             base == [success |-> TRUE] @@ d.orders[order_id]
             withReturn == IF Has(d.returns, return_id)
                           THEN [return_info |-> d.returns[return_id]] @@ base
                           ELSE base
             withRefund == IF Has(d.refunds, refund_id)
                           THEN [refund_info |-> d.refunds[refund_id]] @@ withReturn
                           ELSE withReturn
         IN  Ret([d EXCEPT !.orders = Put(d.orders, order_id, withRefund)], withRefund)

check_order_status(d, order_id) ==
    IF ~Has(d.orders, order_id)
    THEN Ret(d, [error   |-> "Order " \o order_id \o " not found in our system",
                 success |-> FALSE])
    ELSE LET return_id == RetId(order_id)
             refund_id == RefId(order_id)
             base == [success |-> TRUE] @@ d.orders[order_id]
             withReturn == IF Has(d.returns, return_id)
                           THEN [return_info |-> d.returns[return_id]] @@ base
                           ELSE base
             withRefund == IF Has(d.refunds, refund_id)
                           THEN [refund_info |-> d.refunds[refund_id]] @@ withReturn
                           ELSE withReturn
         IN  Ret(d, withRefund)

check_tracking(d, tracking_number) ==
    Ret(d, [tracking_number   |-> tracking_number,
            carrier           |-> "FedEx",
            status            |-> "In Transit",
            location          |-> "Portland, OR",
            last_update       |-> "2025-10-03 14:30",
            expected_delivery |-> "2025-10-05",
            history           |-> <<
                [date |-> "2025-10-01 09:00", location |-> "Seattle, WA",
                 event |-> "Package picked up"],
                [date |-> "2025-10-02 15:30", location |-> "Seattle, WA",
                 event |-> "Departed facility"],
                [date |-> "2025-10-03 08:15", location |-> "Portland, OR",
                 event |-> "Arrived at facility"],
                [date |-> "2025-10-03 14:30", location |-> "Portland, OR",
                 event |-> "In transit to destination"] >>])

initiate_return(d, order_id, reason) ==
    IF ~Has(d.orders, order_id)
    THEN Ret(d, [success |-> FALSE,
                 error   |-> "Order " \o order_id \o " not found"])
    ELSE LET order == d.orders[order_id] IN
         IF order.status \notin {"shipped", "delivered"}
         THEN Ret(d, [success |-> FALSE,
                      error   |-> "Cannot initiate return for order with status: "
                                  \o order.status
                                  \o ". Order must be shipped or delivered."])
         ELSE LET d1 == create_return(d, order_id, reason)
                  d2 == update_order_status(d1, order_id, "return_requested")
              IN  Ret(d2, [success                 |-> TRUE,
                           return_id               |-> RetId(order_id),
                           order_id                |-> order_id,
                           status                  |-> "pending_receipt",
                           message                 |-> "Return initiated successfully. Please ship the item back using the provided label.",
                           return_address          |-> "ShopCo Returns, 123 Warehouse St, Seattle, WA 98101",
                           return_shipping_label   |-> "RETURN-LABEL-" \o order_id
                                                       \o "-" \o Today,
                           instructions            |-> "Pack item securely, attach label, drop off at any FedEx location. Refund will be processed within 3-5 business days after we receive and inspect the item.",
                           estimated_refund_amount |-> order.total])

check_return_status(d, return_id) ==
    IF ~Has(d.returns, return_id)
    THEN Ret(d, [success |-> FALSE,
                 error   |-> "Return " \o return_id \o " not found"])
    ELSE LET return_record == d.returns[return_id]
             refund_id == RefId(return_record.order_id)
             base == [success |-> TRUE] @@ return_record @@
                     [order_total |-> IF Has(d.orders, return_record.order_id)
                                      THEN d.orders[return_record.order_id].total
                                      ELSE None]
         IN  Ret(d, IF Has(d.refunds, refund_id)
                    THEN [refund_info |-> d.refunds[refund_id]] @@ base
                    ELSE base)

\* the branch of initiate_refund for a processing order
refund_processing_order(d, order_id, amount, reason) ==
    LET d1 == update_order_status(d, order_id, "cancelled")
        d2 == create_refund(d1, order_id, amount, reason, None)
        d3 == update_refund_status(d2, RefId(order_id), "processing")
    IN  Ret(d3, [success        |-> TRUE,
                 refund_id      |-> RefId(order_id),
                 order_id       |-> order_id,
                 amount         |-> amount,
                 status         |-> "processing",
                 estimated_days |-> 3])

\* the shipped branch creating the Refund without the link to the Return
refund_shipped_order_unlinked(d, order_id, amount, reason) ==
    LET r == initiate_return(d, order_id, reason) IN
    IF ~r.result.success
    THEN r
    ELSE LET d1 == create_refund(r.db, order_id, amount, reason, None)
         IN  Ret(d1, [success               |-> TRUE,
                      refund_id             |-> RefId(order_id),
                      return_id             |-> r.result.return_id,
                      order_id              |-> order_id,
                      amount                |-> amount,
                      status                |-> "pending_return",
                      return_instructions   |-> r.result.instructions,
                      return_shipping_label |-> r.result.return_shipping_label])

\* the branch of initiate_refund for a shipped or delivered order
refund_shipped_order(d, order_id, amount, reason) ==
    LET r == initiate_return(d, order_id, reason) IN
    IF ~r.result.success
    THEN r
    ELSE LET d1 == create_refund(r.db, order_id, amount, reason, r.result.return_id)
         IN  Ret(d1, [success               |-> TRUE,
                      refund_id             |-> RefId(order_id),
                      return_id             |-> r.result.return_id,
                      order_id              |-> order_id,
                      amount                |-> amount,
                      status                |-> "pending_return",
                      return_instructions   |-> r.result.instructions,
                      return_shipping_label |-> r.result.return_shipping_label])

\* the amount check with the threshold one dollar too high
needs_supervisor_above_501(amount) == GreaterThan(amount, SupervisorLimit + 1)

\* the amount check with >= in place of >
needs_supervisor_from_500(amount) ==
    amount.kind = "num" /\ amount.cents >= SupervisorLimit * 100

\* the in-progress test taking a cancelled order as in progress too
refund_in_progress_or_cancelled(status) ==
    status \in {"return_requested", "refund_processing", "cancelled"}

\* "already in progress" for an order whose return is awaited only
refund_in_progress_requested_only(status) == status = "return_requested"

\* the statuses initiate_refund reports as "already in progress"
refund_in_progress(status) == status \in {"return_requested", "refund_processing"}

\* the amount check of initiate_refund
needs_supervisor(amount) == GreaterThan(amount, SupervisorLimit)

initiate_refund(d, order_id, amount, reason) ==
    IF ~Has(d.orders, order_id)
    THEN Ret(d, [success |-> FALSE,
                 error   |-> "Order " \o order_id \o " not found"])
    ELSE LET order == d.orders[order_id] IN
         IF needs_supervisor(amount)
         THEN Ret(d, [success         |-> FALSE,
                      error           |-> "Refunds over $500 require supervisor approval",
                      action_required |-> "escalate_to_supervisor",
                      order_id        |-> order_id,
                      amount          |-> amount])
         ELSE IF order.status = "processing"
         THEN refund_processing_order(d, order_id, amount, reason)
         ELSE IF order.status \in {"shipped", "delivered"}
         THEN refund_shipped_order(d, order_id, amount, reason)
         ELSE IF refund_in_progress(order.status)
         THEN Ret(d, [success |-> FALSE,
                      error   |-> "Refund already in progress for this order. Current status: "
                                  \o order.status])
         ELSE Ret(d, [success |-> FALSE,
                      error   |-> "Cannot process refund for order with status: "
                                  \o order.status])

\* approval of undamaged items only
accepted_condition_good_only(condition) == condition = "good"

\* approval of everything but the one named rejection condition
accepted_condition_unless_named(condition) == condition # "damaged_beyond_acceptable"

\* the conditions process_return_receipt approves
accepted_condition(condition) == condition \in {"good", "damaged"}

\* the approval branch of process_return_receipt
approve_return(d, return_id, condition) ==
    LET order_id  == d.returns[return_id].order_id
        d1        == update_return_status(d, return_id, "approved")
        d2        == update_order_status(d1, order_id, "refund_processing")
        refund_id == RefId(order_id)
        found     == Has(d2.refunds, refund_id)
        d3        == IF found
                     THEN update_return_refund(
                              update_refund_completed(d2, refund_id, "completed", Today),
                              return_id, "approved", refund_id)
                     ELSE d2
    IN  Ret(d3, [success   |-> TRUE,
                 message   |-> "Return " \o return_id
                               \o " received and approved. Refund processed.",
                 return_id |-> return_id,
                 condition |-> condition,
                 status    |-> "approved",
                 refund_id |-> IF found THEN refund_id ELSE None])

\* a rejection that hands the order back as delivered
reject_return_reopening(d, return_id, condition) ==
    LET d1 == update_return_status(d, return_id, "rejected")
        d2 == update_order_status(d1, d.returns[return_id].order_id, "delivered")
    IN  Ret(d2, [success   |-> FALSE,
                 message   |-> "Return " \o return_id
                               \o " rejected due to condition: " \o condition,
                 return_id |-> return_id,
                 condition |-> condition,
                 status    |-> "rejected"])

\* the rejection branch of process_return_receipt
reject_return(d, return_id, condition) ==
    LET d1 == update_return_status(d, return_id, "rejected")
        d2 == update_order_status(d1, d.returns[return_id].order_id, "return_rejected")
    IN  Ret(d2, [success   |-> FALSE,
                 message   |-> "Return " \o return_id
                               \o " rejected due to condition: " \o condition,
                 return_id |-> return_id,
                 condition |-> condition,
                 status    |-> "rejected"])

\* receipt processing without the pending_receipt check
process_return_receipt_unchecked(d, return_id, condition) ==
    IF ~Has(d.returns, return_id)
    THEN Ret(d, [success |-> FALSE,
                 error   |-> "Return " \o return_id \o " not found"])
    ELSE LET d1 == update_return_received(d, return_id, "received", Today, condition)
         IN  IF accepted_condition(condition)
             THEN approve_return(d1, return_id, condition)
             ELSE reject_return(d1, return_id, condition)

process_return_receipt(d, return_id, condition) ==
    IF ~Has(d.returns, return_id)
    THEN Ret(d, [success |-> FALSE,
                 error   |-> "Return " \o return_id \o " not found"])
    ELSE IF d.returns[return_id].status # "pending_receipt"
    THEN Ret(d, [success |-> FALSE,
                 error   |-> "Return " \o return_id
                             \o " is not pending receipt. Current status: "
                             \o d.returns[return_id].status])
    ELSE LET d1 == update_return_received(d, return_id, "received", Today, condition)
         IN  IF accepted_condition(condition)
             THEN approve_return(d1, return_id, condition)
             ELSE reject_return(d1, return_id, condition)

(***************************************************************************)
(* state.py: the Attempt Tracker, as operators on attempts_by_problem.     *)
(***************************************************************************)
\* the count from which is_stuck reports a key as stuck
StuckThreshold == 3

ProblemKey(problem_category, order_id) == problem_category \o ":" \o order_id

record_attempt(a, problem_category, order_id) ==
    LET problem_key == ProblemKey(problem_category, order_id)
    IN  Put(a, problem_key, GetOr(a, problem_key, 0) + 1)

get_attempts(a, problem_category, order_id) ==
    GetOr(a, ProblemKey(problem_category, order_id), 0)

\* the stuck test with > in place of >=
is_stuck_above_threshold(a, problem_category, order_id) ==
    get_attempts(a, problem_category, order_id) > StuckThreshold

is_stuck(a, problem_category, order_id) ==
    get_attempts(a, problem_category, order_id) >= StuckThreshold

reset_problem(a, problem_category, order_id) ==
    LET problem_key == ProblemKey(problem_category, order_id)
    IN  IF Has(a, problem_key) THEN Del(a, problem_key) ELSE a

\* a reset_all that clears nothing
reset_all_keeping == attempts_by_problem

reset_all == EmptyDict

(***************************************************************************)
(* agent.py: the administrative command surface.  A command is the list    *)
(* of its whitespace-separated tokens, parts = command.split().            *)
(***************************************************************************)
NoResult == [none |-> TRUE]

Call(op, via, args, result) == [op |-> op, via |-> via, args |-> args, result |-> result]

\* what handle_admin_command does to the Ledger, and the call it makes
handle_admin_command(d, parts) ==
    IF Len(parts) < 2
    THEN [db |-> d, call |-> Call("handle_admin_command", "admin", parts, NoResult)]
    ELSE IF parts[2] = "receive_return"
    THEN IF Len(parts) < 3
         THEN [db |-> d, call |-> Call("handle_admin_command", "admin", parts, NoResult)]
         ELSE LET return_id == parts[3]
                  condition == IF Len(parts) > 3 THEN parts[4] ELSE "good"
                  r == process_return_receipt(d, return_id, condition)
              IN  [db   |-> r.db,
                   call |-> Call("process_return_receipt", "admin",
                                 [return_id |-> return_id, condition |-> condition],
                                 r.result)]
    ELSE IF parts[2] = "reset_database"
    THEN [db |-> reset(d), call |-> Call("reset", "admin", parts, NoResult)]
    ELSE [db |-> d, call |-> Call("handle_admin_command", "admin", parts, NoResult)]

(***************************************************************************)
(* agent.py: the Dialogue Controller, CustomerSupportAgent.chat.           *)
(*                                                                         *)
(* Conventions                                                             *)
(*  - a JSON text is [wellformed, object]: the object it decodes to, or    *)
(*    a text that json.loads rejects;                                      *)
(*  - a decoded argument value carries its Python type: JStr for a str,    *)
(*    JNum for a float;                                                    *)
(*  - the result of a step that can raise is a record with a raised flag;  *)
(*  - temperature and top_p are in hundredths.                             *)
(***************************************************************************)
JStr(s) == [t |-> "str", s |-> s]

JNum(n) == [t |-> "num", n |-> n]

Encoded(object) == [wellformed |-> TRUE, object |-> object]

Malformed == [wellformed |-> FALSE, object |-> EmptyDict]

\* json.loads(arguments): raises on a text that is not JSON
json_loads(arguments) ==
    [raised |-> ~arguments.wellformed, value |-> arguments.object]

json_dumps(object) == Encoded(object)

BaselineTemperature == 70

BaselineTopP == 90

StuckTemperature == 100

StuckTopP == 85

ApologyConnect == "I'm having trouble connecting right now. Please try again in a moment."

ApologyUnknownFunction == "I encountered an error. Let me try a different approach."

ApologyFormulate == "I found the information but had trouble formulating a response. Please try asking again."

\* self.available_functions with process_return_receipt added to it
available_functions_with_receipt ==
    {"check_order_status", "check_tracking", "initiate_refund", "check_return_status",
     "process_return_receipt"}

\* the keys of self.available_functions
available_functions ==
    {"check_order_status", "check_tracking", "initiate_refund", "check_return_status"}

\* the names declared to the model in FUNCTION_DEFINITIONS
FUNCTION_DEFINITIONS ==
    {"check_order_status", "check_tracking", "initiate_refund", "check_return_status"}

determine_problem_category(function_name) ==
    IF function_name \in {"initiate_refund", "check_return_status"} THEN "refund_issue"
    ELSE IF function_name = "check_tracking" THEN "tracking_issue"
    ELSE IF function_name = "check_order_status" THEN "order_inquiry"
    ELSE "general"

\* Python's  s.replace("RET-", ""): every occurrence is removed, left to right
RECURSIVE replace_RET(_)
replace_RET(s) ==
    IF Len(s) < 4 THEN s
    ELSE IF SubSeq(s, 1, 4) = "RET-" THEN replace_RET(SubSeq(s, 5, Len(s)))
    ELSE SubSeq(s, 1, 1) \o replace_RET(SubSeq(s, 2, Len(s)))

\* _extract_order_id: a return_id that is not a str has no replace method
extract_order_id(function_args) ==
    IF Has(function_args, "order_id")
    THEN [raised |-> FALSE, value |-> function_args["order_id"].s]
    ELSE IF Has(function_args, "return_id")
    THEN IF function_args["return_id"].t = "str"
         THEN [raised |-> FALSE, value |-> replace_RET(function_args["return_id"].s)]
         ELSE [raised |-> TRUE, value |-> None]
    ELSE [raised |-> FALSE, value |-> "unknown"]

\* the parameters of each function of functions.py; none has a default
Parameters(function_name) ==
    CASE function_name = "check_order_status"     -> {"order_id"}
      [] function_name = "check_tracking"         -> {"tracking_number"}
      [] function_name = "initiate_refund"        -> {"order_id", "amount", "reason"}
      [] function_name = "check_return_status"    -> {"return_id"}
      [] function_name = "process_return_receipt" -> {"return_id", "condition"}

\* the Python values of the decoded arguments
Unwrap(function_args) ==
    [k \in DOMAIN function_args |->
        IF function_args[k].t = "str" THEN function_args[k].s ELSE function_args[k].n]

Raised(d) == [raised |-> TRUE, db |-> d, result |-> EmptyDict]

Returned(r) == [raised |-> FALSE, db |-> r.db, result |-> r.result]

\* function_to_call(**function_args): a TypeError when the keywords are not
\* the function's parameters, or when initiate_refund compares a str amount
invoke(d, function_name, function_args) ==
    LET kw == Unwrap(function_args) IN
    IF DOMAIN function_args # Parameters(function_name)
    THEN Raised(d)
    ELSE CASE function_name = "check_order_status" ->
                  Returned(check_order_status(d, kw.order_id))
           [] function_name = "check_tracking" ->
                  Returned(check_tracking(d, kw.tracking_number))
           [] function_name = "initiate_refund" ->
                  IF Has(d.orders, kw.order_id) /\ function_args.amount.t # "num"
                  THEN Raised(d)
                  ELSE Returned(initiate_refund(d, kw.order_id, kw.amount, kw.reason))
           [] function_name = "check_return_status" ->
                  Returned(check_return_status(d, kw.return_id))
           [] function_name = "process_return_receipt" ->
                  Returned(process_return_receipt(d, kw.return_id, kw.condition))

\* function_response.get("success", True)
reports_success(function_response) == GetOr(function_response, "success", TRUE)

\* the payload chat substitutes when the invocation raises
error_payload(function_name) == [error |-> "Failed to execute " \o function_name]

UserEntry(user_message) == [role |-> "user", content |-> user_message]

AssistantEntry(content) == [role |-> "assistant", content |-> content]

FunctionCallEntry(function_name, arguments) ==
    [role          |-> "assistant",
     content       |-> None,
     function_call |-> [name |-> function_name, arguments |-> arguments]]

FunctionEntry(function_name, function_response) ==
    [role    |-> "function",
     name    |-> function_name,
     content |-> json_dumps(function_response)]

\* the two appends after the invocation, in the opposite order
history_after_dispatch_swapped(h, function_name, arguments, function_response) ==
    Append(Append(h, FunctionEntry(function_name, function_response)),
           FunctionCallEntry(function_name, arguments))

\* the two appends after the invocation
history_after_dispatch(h, function_name, arguments, function_response) ==
    Append(Append(h, FunctionCallEntry(function_name, arguments)),
           FunctionEntry(function_name, function_response))

Sampling(temperature, top_p) == [temperature |-> temperature, top_p |-> top_p]

baseline_sampling == Sampling(BaselineTemperature, BaselineTopP)

\* the adjustment with is_stuck ignored
sampling_never_adjusted(sampling, a, problem_category, order_id) == sampling

\* temperature and top_p of the second model call: adjusted when stuck
sampling_after_dispatch(sampling, a, problem_category, order_id) ==
    IF is_stuck(a, problem_category, order_id)
    THEN Sampling(StuckTemperature, StuckTopP)
    ELSE sampling

\* the handler of a failed first call, answering with the other apology
answer_on_api_error_formulate == ApologyFormulate

\* what chat returns when the first model call fails
answer_on_api_error == ApologyConnect

\* the final answer with the function entries of the turn discarded
history_after_final_discarding(h, final_message) ==
    Append(SubSeq(h, 1, Len(h) - 2), AssistantEntry(final_message))

\* the append of the final answer
history_after_final(h, final_message) == Append(h, AssistantEntry(final_message))

\* the locals of one call of chat
NoFunctionCall == [name |-> None, arguments |-> Malformed]

NoCall == [made |-> FALSE, failed |-> FALSE, functions |-> {},
           temperature |-> 0, top_p |-> 0]

\* one call of client.chat.completions.create: what was passed, and whether it raised
ModelCall(functions, sampling, failed) ==
    [made |-> TRUE, failed |-> failed, functions |-> functions,
     temperature |-> sampling.temperature, top_p |-> sampling.top_p]

\* the second call passing the function definitions again
second_call_functions_declared == FUNCTION_DEFINITIONS

\* the second call passes no functions argument
second_call_functions == {}

NoTurn ==
    [outcome           |-> "none",
     user_message      |-> None,
     function_call     |-> NoFunctionCall,
     function_args     |-> EmptyDict,
     problem_category  |-> None,
     order_id          |-> None,
     invoked           |-> "no",
     function_response |-> EmptyDict,
     sampling          |-> baseline_sampling,
     first_call        |-> NoCall,
     second_call       |-> NoCall,
     returned          |-> None,
     path              |-> <<>>,
     events            |-> <<>>,
     start             |-> [history |-> <<>>, attempts |-> EmptyDict, db |-> EmptyDict,
                            current_problem_category |-> None,
                            current_order_id |-> None]]

(***************************************************************************)
(* Inputs.                                                                 *)
(***************************************************************************)
\* an order identifier that no sample order has
AbsentOrderId == "99999"

\* one sample order of each status the sample data has: shipped, processing, delivered
OrderPool == {"12345", "67890", "11111"}

InputOrderIds == inputs \cup {AbsentOrderId}

InputReturnIds == {RetId(o) : o \in InputOrderIds}

\* the order's own total, the threshold itself, one cent above it, and NaN
InputAmounts(order_id) ==
    {Num(SupervisorLimit * 100), Num(SupervisorLimit * 100 + 1), NaN}
    \cup (IF Has(initialize_sample_data, order_id)
          THEN {initialize_sample_data[order_id].total} ELSE {})

InputReasons == {"damaged"}

InputConditions == {"good", "damaged", "damaged_beyond_acceptable", "wet"}

InputTrackingNumbers == {"1Z999AA10123456784"}

InputAdminCommands ==
    {<<"/admin">>}
    \cup {<<"/admin", a>> : a \in {"receive_return", "show_orders", "show_returns",
                                  "show_refunds", "reset_database", "bogus"}}
    \cup {<<"/admin", "receive_return", r>> : r \in InputReturnIds}
    \cup {<<"/admin", "receive_return", r, c>> : r \in InputReturnIds, c \in InputConditions}

\* the sample order the model's replies of one conversation are about
ChatOrderId == "12345"

InputMessages == {"Where is my order?"}

FunctionCallReply(function_name, arguments) ==
    [content |-> None, function_call |-> [name |-> function_name, arguments |-> arguments]]

\* the replies of the model to the first call of a turn: a plain answer, each
\* declared function, names that are not declared, and argument texts that
\* do not decode or do not fit the function
InputReplies ==
    {[content |-> "Happy to help.", function_call |-> NoFunctionCall],
     FunctionCallReply("check_order_status", Encoded([order_id |-> JStr(ChatOrderId)])),
     FunctionCallReply("check_tracking",
                       Encoded([tracking_number |-> JStr("1Z999AA10123456784")])),
     FunctionCallReply("initiate_refund",
                       Encoded([order_id |-> JStr(ChatOrderId),
                                amount   |-> JNum(initialize_sample_data[ChatOrderId].total),
                                reason   |-> JStr("damaged")])),
     FunctionCallReply("initiate_refund",
                       Encoded([order_id |-> JStr(ChatOrderId),
                                amount   |-> JNum(Num(SupervisorLimit * 100 + 1)),
                                reason   |-> JStr("damaged")])),
     FunctionCallReply("initiate_refund", Encoded([order_id |-> JStr(ChatOrderId)])),
     FunctionCallReply("check_return_status",
                       Encoded([return_id |-> JStr(RetId(ChatOrderId))])),
     FunctionCallReply("check_return_status", Encoded([return_id |-> JNum(Num(1234500))])),
     FunctionCallReply("check_order_status", Malformed),
     FunctionCallReply("process_return_receipt",
                       Encoded([return_id |-> JStr(RetId(ChatOrderId)),
                                condition |-> JStr("good")])),
     FunctionCallReply("cancel_order", Malformed)}

\* what a call of the model API does: it raises, or it returns a message
ApiError == [failed |-> TRUE, message |-> [content |-> None, function_call |-> NoFunctionCall]]

ApiReply(message) == [failed |-> FALSE, message |-> message]

FirstCallOutcomes == {ApiError} \cup {ApiReply(m) : m \in InputReplies}

SecondCallOutcomes ==
    {ApiError, ApiReply([content |-> "Here is what I found.", function_call |-> NoFunctionCall])}

\* the admin commands typed between the turns of a conversation
ChatAdminCommands ==
    {<<"/admin", "receive_return", RetId(ChatOrderId), "good">>,
     <<"/admin", "receive_return", RetId(ChatOrderId), "damaged_beyond_acceptable">>,
     <<"/admin", "reset_database">>}

TrackerCategories == {"refund_issue", "order_inquiry"}

TrackerOrderIds == {"12345", "unknown"}

TrackerKeys == {ProblemKey(c, o) : c \in TrackerCategories, o \in TrackerOrderIds}

(***************************************************************************)
(* The state after construction: db = InMemoryDatabase(), AgentState().    *)
(***************************************************************************)
Init ==
    /\ db = InMemoryDatabase
    /\ attempts_by_problem = EmptyDict
    /\ current_order_id = None
    /\ current_problem_category = None
    /\ last = Call("init", "init", <<>>, NoResult)
    /\ pre = InMemoryDatabase
    /\ inputs \in {S \in SUBSET OrderPool :
                       Cardinality(S) = IF NumOrderInputs < Cardinality(OrderPool)
                                        THEN NumOrderInputs ELSE Cardinality(OrderPool)}
    /\ streak = [k \in TrackerKeys |-> 0]
    /\ conversation_history = <<>>
    /\ pc = "IDLE"
    /\ turn = NoTurn
    /\ steps = 0

chatVars == <<conversation_history, pc, turn, steps>>

trackerVars == <<attempts_by_problem, current_order_id, current_problem_category, streak>>

\* one call of a Business Operation, whose outcome is r
Business(op, via, args, r) ==
    /\ db' = r.db
    /\ pre' = db
    /\ last' = Call(op, via, args, r.result)
    /\ UNCHANGED <<inputs, trackerVars, chatVars>>

CheckOrderStatus ==
    \E o \in InputOrderIds :
        Business("check_order_status", "direct", [order_id |-> o],
                 check_order_status(db, o))

CheckTracking ==
    \E t \in InputTrackingNumbers :
        Business("check_tracking", "direct", [tracking_number |-> t],
                 check_tracking(db, t))

InitiateReturn ==
    \E o \in InputOrderIds, reason \in InputReasons :
        Business("initiate_return", "direct", [order_id |-> o, reason |-> reason],
                 initiate_return(db, o, reason))

CheckReturnStatus ==
    \E r \in InputReturnIds :
        Business("check_return_status", "direct", [return_id |-> r],
                 check_return_status(db, r))

InitiateRefund ==
    \E o \in InputOrderIds, reason \in InputReasons :
        \E amount \in InputAmounts(o) :
            Business("initiate_refund", "direct",
                     [order_id |-> o, amount |-> amount, reason |-> reason],
                     initiate_refund(db, o, amount, reason))

AdminCommand ==
    \E parts \in InputAdminCommands :
        LET h == handle_admin_command(db, parts)
        IN  /\ db' = h.db
            /\ pre' = db
            /\ last' = h.call
            /\ UNCHANGED <<inputs, trackerVars, chatVars>>

NextOps ==
    \/ CheckOrderStatus
    \/ CheckTracking
    \/ InitiateReturn
    \/ CheckReturnStatus
    \/ InitiateRefund
    \/ AdminCommand

\* the Business Operations and the administrative commands, in any order
SpecOps == Init /\ [][NextOps]_vars

\* the calls the program itself makes on the Ledger: the four functions chat
\* can dispatch, with any arguments, and the admin commands; initiate_return
\* is called by initiate_refund only
NextReachable ==
    \/ CheckOrderStatus
    \/ CheckTracking
    \/ CheckReturnStatus
    \/ InitiateRefund
    \/ AdminCommand

SpecReachable == Init /\ [][NextReachable]_vars

(***************************************************************************)
(* The Attempt Tracker driven through its own interface.                   *)
(***************************************************************************)
ledgerVars == <<db, pre, inputs>>

RecordAttempt ==
    \E c \in TrackerCategories, o \in TrackerOrderIds :
        /\ streak[ProblemKey(c, o)] < MaxAttempts
        /\ attempts_by_problem' = record_attempt(attempts_by_problem, c, o)
        /\ current_problem_category' = c
        /\ current_order_id' = o
        /\ streak' = [streak EXCEPT ![ProblemKey(c, o)] = @ + 1]
        /\ last' = Call("record_attempt", "direct",
                        [problem_category |-> c, order_id |-> o], NoResult)
        /\ UNCHANGED <<ledgerVars, chatVars>>

ResetProblem ==
    \E c \in TrackerCategories, o \in TrackerOrderIds :
        /\ attempts_by_problem' = reset_problem(attempts_by_problem, c, o)
        /\ streak' = [streak EXCEPT ![ProblemKey(c, o)] = 0]
        /\ last' = Call("reset_problem", "direct",
                        [problem_category |-> c, order_id |-> o], NoResult)
        /\ UNCHANGED <<current_problem_category, current_order_id, ledgerVars, chatVars>>

ResetAll ==
    /\ attempts_by_problem' = reset_all
    /\ current_order_id' = None
    /\ current_problem_category' = None
    /\ streak' = [k \in TrackerKeys |-> 0]
    /\ last' = Call("reset_all", "direct", <<>>, NoResult)
    /\ UNCHANGED <<ledgerVars, chatVars>>

NextTracker ==
    \/ RecordAttempt
    \/ ResetProblem
    \/ ResetAll

SpecTracker == Init /\ [][NextTracker]_vars

(***************************************************************************)
(* One conversation: the interactive loop reads a message (a turn of       *)
(* chat), the word reset, or an admin command.  A turn is a sequence of    *)
(* steps; pc names the state of the turn, and ATTEMPT_RECORDED is the      *)
(* point of FUNCTION_REQUESTED after the attempt has been recorded.        *)
(* turn.path and turn.events log the states and the steps of the turn.     *)
(***************************************************************************)
InitChat == Init /\ ChatOrderId \in inputs

\* chat returns the string answer
Return(t, answer) ==
    [t EXCEPT !.outcome = "returned", !.returned = answer, !.path = Append(@, "DONE")]

\* an exception leaves chat
Raise(t) == [t EXCEPT !.outcome = "raised", !.path = Append(@, "RAISED")]

\* agent.py 76-84: the user message is appended, the sampling values are set
ChatBegin ==
    /\ pc = "IDLE"
    /\ steps < MaxInputs
    /\ \E user_message \in InputMessages :
        /\ conversation_history' = Append(conversation_history, UserEntry(user_message))
        /\ turn' = [NoTurn EXCEPT
                        !.outcome = "running",
                        !.user_message = user_message,
                        !.sampling = Sampling(BaselineTemperature, BaselineTopP),
                        !.path = <<"AWAIT_MODEL">>,
                        !.start = [history  |-> conversation_history,
                                   attempts |-> attempts_by_problem,
                                   db       |-> db,
                                   current_problem_category |-> current_problem_category,
                                   current_order_id |-> current_order_id]]
    /\ pc' = "AWAIT_MODEL"
    /\ steps' = steps + 1
    /\ UNCHANGED <<db, pre, last, inputs, trackerVars>>

\* agent.py 87-109 and 193-202: the call with the function definitions
FirstModelCall ==
    /\ pc = "AWAIT_MODEL"
    /\ \E o \in FirstCallOutcomes :
        LET called == [turn EXCEPT
                           !.first_call = ModelCall(FUNCTION_DEFINITIONS, turn.sampling,
                                                    o.failed),
                           !.events = Append(@, "model_call")]
        IN  IF o.failed
            THEN /\ turn' = Return(called, answer_on_api_error)
                 /\ pc' = "IDLE"
                 /\ UNCHANGED conversation_history
            ELSE IF o.message.function_call.name # None
            THEN /\ turn' = [called EXCEPT
                                 !.function_call = o.message.function_call,
                                 !.path = Append(@, "FUNCTION_REQUESTED")]
                 /\ pc' = "FUNCTION_REQUESTED"
                 /\ UNCHANGED conversation_history
            ELSE /\ conversation_history' =
                        Append(conversation_history, AssistantEntry(o.message.content))
                 /\ turn' = Return(called, o.message.content)
                 /\ pc' = "IDLE"
    /\ UNCHANGED <<db, pre, last, inputs, trackerVars, steps>>

\* agent.py 108-123: the arguments are decoded, the key derived, the attempt recorded
TrackAttempt ==
    /\ pc = "FUNCTION_REQUESTED"
    /\ LET function_name == turn.function_call.name
           decoded == json_loads(turn.function_call.arguments)
           problem_category == determine_problem_category(function_name)
           order_id == extract_order_id(decoded.value)
       IN  IF decoded.raised \/ order_id.raised
           THEN /\ turn' = Raise(turn)
                /\ pc' = "IDLE"
                /\ UNCHANGED <<attempts_by_problem, current_problem_category,
                               current_order_id>>
           ELSE /\ attempts_by_problem' =
                       record_attempt(attempts_by_problem, problem_category, order_id.value)
                /\ current_problem_category' = problem_category
                /\ current_order_id' = order_id.value
                /\ turn' = [turn EXCEPT
                                !.function_args = decoded.value,
                                !.problem_category = problem_category,
                                !.order_id = order_id.value,
                                !.events = Append(@, "record_attempt")]
                /\ pc' = "ATTEMPT_RECORDED"
    /\ UNCHANGED <<db, pre, last, inputs, streak, conversation_history, steps>>

\* agent.py 126-144: the function is looked up and invoked, the key cleared on success
Dispatch ==
    /\ pc = "ATTEMPT_RECORDED"
    /\ LET function_name == turn.function_call.name
           r == invoke(db, function_name, turn.function_args)
           cleared == reset_problem(attempts_by_problem,
                                    turn.problem_category, turn.order_id)
       IN  IF function_name \notin available_functions
           THEN /\ turn' = Return(turn, ApologyUnknownFunction)
                /\ pc' = "IDLE"
                /\ UNCHANGED <<db, pre, last, attempts_by_problem>>
           ELSE IF r.raised
           THEN /\ turn' = [turn EXCEPT
                                !.invoked = "raised",
                                !.function_response = error_payload(function_name),
                                !.events = Append(@, "invoke"),
                                !.path = Append(@, "FUNCTION_EXECUTED")]
                /\ pc' = "FUNCTION_EXECUTED"
                /\ UNCHANGED <<db, pre, last, attempts_by_problem>>
           ELSE /\ db' = r.db
                /\ pre' = db
                /\ last' = Call(function_name, "chat", Unwrap(turn.function_args), r.result)
                /\ attempts_by_problem' =
                       IF reports_success(r.result) THEN cleared ELSE attempts_by_problem
                /\ turn' = [turn EXCEPT
                                !.invoked = "returned",
                                !.function_response = r.result,
                                !.events = IF reports_success(r.result)
                                           THEN @ \o <<"invoke", "reset_problem">>
                                           ELSE Append(@, "invoke"),
                                !.path = Append(@, "FUNCTION_EXECUTED")]
                /\ pc' = "FUNCTION_EXECUTED"
    /\ UNCHANGED <<inputs, current_problem_category, current_order_id, streak,
                   conversation_history, steps>>

\* agent.py 147-166: the call and its result are appended, the sampling adjusted
AppendResult ==
    /\ pc = "FUNCTION_EXECUTED"
    /\ conversation_history' =
           history_after_dispatch(conversation_history, turn.function_call.name,
                                  turn.function_call.arguments, turn.function_response)
    /\ turn' = [turn EXCEPT
                    !.sampling = sampling_after_dispatch(turn.sampling,
                                                         attempts_by_problem,
                                                         turn.problem_category,
                                                         turn.order_id),
                    !.events = @ \o <<"append_call", "append_result">>,
                    !.path = Append(@, "AWAIT_MODEL_FINAL")]
    /\ pc' = "AWAIT_MODEL_FINAL"
    /\ UNCHANGED <<db, pre, last, inputs, trackerVars, steps>>

\* agent.py 169-191: the call without function definitions, and the final answer
SecondModelCall ==
    /\ pc = "AWAIT_MODEL_FINAL"
    /\ \E o \in SecondCallOutcomes :
        LET final_message == IF o.failed THEN ApologyFormulate ELSE o.message.content
            called == [turn EXCEPT
                           !.second_call = ModelCall(second_call_functions, turn.sampling,
                                                     o.failed),
                           !.events = Append(@, "model_call")]
        IN  /\ conversation_history' = history_after_final(conversation_history,
                                                           final_message)
            /\ turn' = Return(called, final_message)
    /\ pc' = "IDLE"
    /\ UNCHANGED <<db, pre, last, inputs, trackerVars, steps>>

\* agent.py 204-208, read as the input  reset
AgentReset ==
    /\ pc = "IDLE"
    /\ steps < MaxInputs
    /\ conversation_history' = <<>>
    /\ attempts_by_problem' = reset_all
    /\ current_order_id' = None
    /\ current_problem_category' = None
    /\ turn' = NoTurn
    /\ steps' = steps + 1
    /\ UNCHANGED <<db, pre, last, inputs, streak, pc>>

\* agent.py 314-316: an admin command typed between two turns
AdminInput ==
    /\ pc = "IDLE"
    /\ steps < MaxInputs
    /\ \E parts \in ChatAdminCommands :
        LET h == handle_admin_command(db, parts)
        IN  /\ db' = h.db
            /\ pre' = db
            /\ last' = h.call
    /\ turn' = NoTurn
    /\ steps' = steps + 1
    /\ UNCHANGED <<inputs, trackerVars, conversation_history, pc>>

NextChat ==
    \/ ChatBegin
    \/ FirstModelCall
    \/ TrackAttempt
    \/ Dispatch
    \/ AppendResult
    \/ SecondModelCall
    \/ AgentReset
    \/ AdminInput

\* the conversation: turns of chat, resets and admin commands, in any order
SpecChat == InitChat /\ [][NextChat]_vars

(***************************************************************************)
(* The derivation of the counter key, agent.py 115-116, applied to         *)
(* arguments of every shape: with and without order_id, with return_id     *)
(* values that carry RET- as a prefix, elsewhere, twice or not at all, or   *)
(* that are not strings.                                                   *)
(***************************************************************************)
KeyFunctionNames ==
    {"check_order_status", "check_tracking", "initiate_refund", "check_return_status",
     "process_return_receipt"}

KeyOrderIds == {"12345", "67890"}

KeyReturnIds ==
    {JStr(RetId(o)) : o \in KeyOrderIds}
    \cup {JStr("12345"), JStr("12RET-345"), JStr("RET-RET-12345"), JStr("RET-"),
          JNum(Num(1234500))}

KeyArguments ==
    {EmptyDict, [tracking_number |-> JStr("1Z999AA10123456784")]}
    \cup {[order_id |-> JStr(o)] : o \in KeyOrderIds}
    \cup {[return_id |-> r] : r \in KeyReturnIds}
    \cup {[order_id |-> JStr(o), return_id |-> r] : o \in KeyOrderIds, r \in KeyReturnIds}

DeriveKey ==
    \E function_name \in KeyFunctionNames, function_args \in KeyArguments :
        LET problem_category == determine_problem_category(function_name)
            order_id == extract_order_id(function_args)
        IN  /\ last' = Call("_extract_order_id", "direct",
                            [function_name |-> function_name,
                             function_args |-> function_args],
                            [raised           |-> order_id.raised,
                             problem_category |-> problem_category,
                             order_id         |-> order_id.value])
            /\ UNCHANGED <<db, pre, inputs, trackerVars, chatVars>>

NextKey == DeriveKey

SpecKey == Init /\ [][NextKey]_vars

(***************************************************************************)
(* Properties.  Each is read off the recorded call: last is the call just  *)
(* made, pre the Ledger it started from, db the Ledger it left.            *)
(***************************************************************************)
\* an amount that is a number not above 500 dollars
AtMost500(amount) == amount.kind = "num" /\ amount.cents <= 50000

\* an amount that is a number above 500 dollars
Above500(amount) == amount.kind = "num" /\ amount.cents > 50000

\* the last call was initiate_refund on an order that existed
RefundCallOnExistingOrder ==
    /\ last.op = "initiate_refund"
    /\ Has(pre.orders, last.args.order_id)

\* the last call was process_return_receipt on a Return that was pending_receipt
ReceiptCallOnPendingReturn ==
    /\ last.op = "process_return_receipt"
    /\ Has(pre.returns, last.args.return_id)
    /\ pre.returns[last.args.return_id].status = "pending_receipt"

\* C1: initiate_refund with amount > 500 on an existing order returns a
\* failure-flagged result asking for escalation and leaves every order, return
\* and refund as it was, whatever the order's status.
C1_OverLimitRefundChangesNothing ==
    (RefundCallOnExistingOrder /\ Above500(last.args.amount)) =>
        /\ last.result.success = FALSE
        /\ "action_required" \in DOMAIN last.result
        /\ last.result.action_required = "escalate_to_supervisor"
        /\ db = pre

C1_Witness ==
    /\ RefundCallOnExistingOrder
    /\ Above500(last.args.amount)
    /\ pre.orders[last.args.order_id].status = "refund_processing"
    /\ last.result.success = FALSE
    /\ db = pre

\* C2: initiate_refund with amount <= 500 (500 included) on a processing order
\* returns success, cancels the order and leaves Refund REF-<order> with status
\* processing and no linked return; no Return is created.
C2_ProcessingOrderRefund ==
    (/\ RefundCallOnExistingOrder
     /\ pre.orders[last.args.order_id].status = "processing"
     /\ AtMost500(last.args.amount)) =>
        LET o == last.args.order_id
            ref == "REF-" \o o
        IN  /\ last.result.success = TRUE
            /\ db.orders[o].status = "cancelled"
            /\ Has(db.refunds, ref)
            /\ db.refunds[ref].status = "processing"
            /\ db.refunds[ref].return_id = None
            /\ db.refunds[ref].order_id = o
            /\ db.returns = pre.returns

C2_Witness ==
    /\ RefundCallOnExistingOrder
    /\ pre.orders[last.args.order_id].status = "processing"
    /\ last.args.amount = Num(50000)
    /\ last.result.success = TRUE
    /\ db.orders[last.args.order_id].status = "cancelled"
    /\ db.refunds["REF-" \o last.args.order_id].status = "processing"

\* what C3 promises of a call on a shipped or delivered order
ReturnAndRefundOpened ==
    LET o == last.args.order_id
        ref == "REF-" \o o
        ret == "RET-" \o o
    IN  /\ Has(db.refunds, ref)
        /\ db.refunds[ref].status = "pending_return"
        /\ Has(db.returns, ret)
        /\ db.returns[ret].status = "pending_receipt"
        /\ db.orders[o].status = "return_requested"

\* C3 as stated: initiate_refund on any shipped or delivered order, whatever the
\* amount, yields a Refund pending_return and a Return pending_receipt and moves
\* the order to return_requested.
C3_AsStated ==
    (/\ RefundCallOnExistingOrder
     /\ pre.orders[last.args.order_id].status \in {"shipped", "delivered"}) =>
        ReturnAndRefundOpened

\* C3, amended: initiate_refund with amount <= 500 on a shipped or delivered
\* order yields a Refund pending_return and a Return pending_receipt, and the
\* order's status becomes return_requested.
C3_ShippedOrderRefund ==
    (/\ RefundCallOnExistingOrder
     /\ pre.orders[last.args.order_id].status \in {"shipped", "delivered"}
     /\ AtMost500(last.args.amount)) =>
        ReturnAndRefundOpened

C3_Witness ==
    /\ RefundCallOnExistingOrder
    /\ pre.orders[last.args.order_id].status = "delivered"
    /\ AtMost500(last.args.amount)
    /\ last.result.success = TRUE
    /\ ReturnAndRefundOpened

\* the error process_return_receipt gives for a Return that is not pending
NotPendingError(return_id, status) ==
    "Return " \o return_id \o " is not pending receipt. Current status: " \o status

\* a success-flagged process_return_receipt started from a pending_receipt Return
ReceiptSuccessOnlyIfPending ==
    (last.op = "process_return_receipt" /\ last.result.success = TRUE) =>
        ReceiptCallOnPendingReturn

\* C4: process_return_receipt succeeds only if the Return was pending_receipt
\* when it was called; and when a call on an existing pending_receipt Return
\* (any condition) is followed by a call on the same return id, that second
\* call fails with the 'not pending receipt' error and changes nothing.
C4_ReceiptOnlyOnce ==
    [][/\ ReceiptSuccessOnlyIfPending'
       /\ (/\ ReceiptCallOnPendingReturn
           /\ last'.op = "process_return_receipt"
           /\ last'.args.return_id = last.args.return_id) =>
              /\ last'.result.success = FALSE
              /\ "error" \in DOMAIN last'.result
              /\ last'.result.error =
                     NotPendingError(last.args.return_id,
                                     db.returns[last.args.return_id].status)
              /\ db' = db]_vars

C4_Witness ==
    /\ last.op = "process_return_receipt"
    /\ Has(pre.returns, last.args.return_id)
    /\ pre.returns[last.args.return_id].status = "rejected"
    /\ last.result.success = FALSE
    /\ "error" \in DOMAIN last.result
    /\ last.result.error = NotPendingError(last.args.return_id, "rejected")
    /\ db = pre

\* C5: process_return_receipt on a pending_receipt Return with condition good
\* or damaged returns success and leaves the Return approved, the linked Order
\* refund_processing and, if Refund REF-<order> exists, that Refund completed
\* and the Return's refund_id set to it.
C5_AcceptedReturn ==
    (ReceiptCallOnPendingReturn /\ last.args.condition \in {"good", "damaged"}) =>
        LET ret == last.args.return_id
            o   == pre.returns[ret].order_id
            ref == "REF-" \o o
        IN  /\ last.result.success = TRUE
            /\ db.returns[ret].status = "approved"
            /\ db.orders[o].status = "refund_processing"
            /\ Has(pre.refunds, ref) =>
                   /\ db.refunds[ref].status = "completed"
                   /\ db.returns[ret].refund_id = ref

C5_Witness ==
    /\ ReceiptCallOnPendingReturn
    /\ last.args.condition = "damaged"
    /\ Has(pre.refunds, "REF-" \o pre.returns[last.args.return_id].order_id)
    /\ last.result.success = TRUE
    /\ db.returns[last.args.return_id].status = "approved"
    /\ db.refunds["REF-" \o pre.returns[last.args.return_id].order_id].status = "completed"

\* C6: process_return_receipt on a pending_receipt Return with condition
\* damaged_beyond_acceptable, or any other condition outside {good, damaged},
\* leaves the Return rejected and the Order return_rejected, leaves the refunds
\* untouched and returns a failure-flagged result with the rejection details.
C6_RejectedReturn ==
    (ReceiptCallOnPendingReturn /\ last.args.condition \notin {"good", "damaged"}) =>
        LET ret == last.args.return_id
            o   == pre.returns[ret].order_id
        IN  /\ last.result.success = FALSE
            /\ db.returns[ret].status = "rejected"
            /\ db.orders[o].status = "return_rejected"
            /\ db.refunds = pre.refunds
            /\ {"return_id", "condition", "status"} \subseteq DOMAIN last.result
            /\ last.result.return_id = ret
            /\ last.result.condition = last.args.condition
            /\ last.result.status = "rejected"

C6_Witness ==
    /\ ReceiptCallOnPendingReturn
    /\ last.args.condition = "wet"
    /\ Has(pre.refunds, "REF-" \o pre.returns[last.args.return_id].order_id)
    /\ last.result.success = FALSE
    /\ db.returns[last.args.return_id].status = "rejected"
    /\ db.orders[pre.returns[last.args.return_id].order_id].status = "return_rejected"

\* initiate_refund of at most 500 on a shipped order of a freshly reset Ledger
FreshShippedRefund ==
    /\ RefundCallOnExistingOrder
    /\ pre = InMemoryDatabase
    /\ pre.orders[last.args.order_id].status = "shipped"
    /\ AtMost500(last.args.amount)

\* C7: from a freshly reset Ledger, initiate_refund on a shipped order o
\* returns success with status pending_return and return id RET-o; the admin
\* command receive_return RET-o good that follows approves Return RET-o and
\* completes Refund REF-o.
C7_RefundThenReceive ==
    [][/\ FreshShippedRefund' =>
              /\ last'.result.success = TRUE
              /\ last'.result.status = "pending_return"
              /\ last'.result.return_id = "RET-" \o last'.args.order_id
       /\ (/\ FreshShippedRefund
           /\ last'.op = "process_return_receipt"
           /\ last'.via = "admin"
           /\ last'.args.return_id = "RET-" \o last.args.order_id
           /\ last'.args.condition = "good") =>
              /\ last'.result.success = TRUE
              /\ db'.returns["RET-" \o last.args.order_id].status = "approved"
              /\ db'.refunds["REF-" \o last.args.order_id].status = "completed"]_vars

C7_Witness ==
    /\ last.op = "process_return_receipt"
    /\ last.via = "admin"
    /\ last.args = [return_id |-> "RET-12345", condition |-> "good"]
    /\ pre = [InMemoryDatabase EXCEPT
                 !.orders["12345"].status = "return_requested",
                 !.returns = create_return(InMemoryDatabase, "12345", "damaged").returns,
                 !.refunds = create_refund(InMemoryDatabase, "12345", Num(8999),
                                           "damaged", "RET-12345").refunds]
    /\ db.returns["RET-12345"].status = "approved"
    /\ db.refunds["REF-12345"].status = "completed"

\* the Ledger after a reset and initiate_refund("67890", 45.50, ...)
LedgerAfterFirstRefund ==
    [InMemoryDatabase EXCEPT
        !.orders["67890"].status = "cancelled",
        !.refunds = [r \in {"REF-67890"} |->
                        [refund_id      |-> "REF-67890",
                         order_id       |-> "67890",
                         amount         |-> Num(4550),
                         reason         |-> "damaged",
                         status         |-> "processing",
                         initiated_date |-> Today,
                         completed_date |-> None,
                         return_id      |-> None]]]

\* a second initiate_refund on order 67890 after the first one cancelled it
SecondRefundCall ==
    /\ last.op = "initiate_refund"
    /\ last.args.order_id = "67890"
    /\ pre = LedgerAfterFirstRefund

C9_LinksResolve ==
    /\ \A ret \in DOMAIN db.returns : Has(db.orders, db.returns[ret].order_id)
    /\ \A ref \in DOMAIN db.refunds :
           db.refunds[ref].return_id # None =>
               /\ Has(db.returns, db.refunds[ref].return_id)
               /\ db.returns[db.refunds[ref].return_id].order_id
                      = db.refunds[ref].order_id

C9_Witness ==
    /\ \E ref \in DOMAIN db.refunds :
           /\ db.refunds[ref].return_id # None
           /\ db.returns[db.refunds[ref].return_id].order_id = db.refunds[ref].order_id
    /\ \E ret \in DOMAIN db.returns : ~Has(db.refunds, "REF-" \o db.returns[ret].order_id)

\* C10: after three record_attempt calls on one (category, order) key with no
\* reset in between is_stuck is true for the key, after one or two it is false;
\* a reset_problem for the key makes get_attempts 0 and is_stuck false.
C10_StuckAtThree ==
    /\ \A c \in TrackerCategories, o \in TrackerOrderIds :
           /\ streak[ProblemKey(c, o)] >= 3 => is_stuck(attempts_by_problem, c, o)
           /\ streak[ProblemKey(c, o)] \in {1, 2} => ~is_stuck(attempts_by_problem, c, o)
    /\ last.op = "reset_problem" =>
           /\ get_attempts(attempts_by_problem,
                           last.args.problem_category, last.args.order_id) = 0
           /\ ~is_stuck(attempts_by_problem,
                        last.args.problem_category, last.args.order_id)

C10_Witness ==
    /\ last.op = "record_attempt"
    /\ streak[ProblemKey(last.args.problem_category, last.args.order_id)] = 3
    /\ is_stuck(attempts_by_problem, last.args.problem_category, last.args.order_id)
    /\ \E c \in TrackerCategories, o \in TrackerOrderIds :
           streak[ProblemKey(c, o)] = 2 /\ ~is_stuck(attempts_by_problem, c, o)

(***************************************************************************)
(* Properties of the turn.  turn.start is the transcript, the Attempt      *)
(* Tracker and the Ledger as chat found them; the turn is over when chat   *)
(* has returned or raised.                                                 *)
(***************************************************************************)
Happened(event) == \E i \in DOMAIN turn.events : turn.events[i] = event

Count(event) == Cardinality({i \in DOMAIN turn.events : turn.events[i] = event})

TurnOver == pc = "IDLE" /\ turn.outcome \in {"returned", "raised"}

\* the first reply of the turn asked for a function
RequestedCall == turn.function_call.name # None

\* the turn has gone past lines 108-123
PastRecording == RequestedCall /\ pc \notin {"AWAIT_MODEL", "FUNCTION_REQUESTED"}

TurnKey == ProblemKey(turn.problem_category, turn.order_id)

\* the Attempt Tracker of turn.start with the turn's attempt recorded
Recorded == record_attempt(turn.start.attempts, turn.problem_category, turn.order_id)

\* every key but the turn's has the counter it had when the turn started
OtherKeysUntouched ==
    \A k \in (DOMAIN attempts_by_problem \cup DOMAIN turn.start.attempts) \ {TurnKey} :
        /\ Has(attempts_by_problem, k) <=> Has(turn.start.attempts, k)
        /\ Has(attempts_by_problem, k) => attempts_by_problem[k] = turn.start.attempts[k]

\* the result of the invoked operation carries success = True
ExplicitSuccess ==
    /\ turn.invoked = "returned"
    /\ Has(turn.function_response, "success")
    /\ turn.function_response.success = TRUE

\* C11: in every turn whose first reply requests a function call, the counter
\* of the derived key has been incremented by exactly 1 when the turn comes
\* to dispatch, whatever the outcome, and no other counter has changed.
C11_AsStated ==
    PastRecording =>
        /\ Happened("record_attempt")
        /\ pc = "ATTEMPT_RECORDED" => attempts_by_problem = Recorded
        /\ OtherKeysUntouched

\* C12: once the operation of a turn has been dispatched, the entry of the
\* turn's key is gone if and only if the operation returned a result whose
\* success flag is true; otherwise it stays at its incremented count.
C12_AsStated ==
    (PastRecording /\ Happened("record_attempt") /\ pc # "ATTEMPT_RECORDED") =>
        /\ ~Has(attempts_by_problem, TurnKey) <=> ExplicitSuccess
        /\ ~ExplicitSuccess => attempts_by_problem = Recorded

\* the key of the turn is stuck after the success-clearing step
StuckAfterDispatch == is_stuck(attempts_by_problem, turn.problem_category, turn.order_id)

FirstCallAtBaseline ==
    turn.first_call.made =>
        /\ turn.first_call.temperature = BaselineTemperature
        /\ turn.first_call.top_p = BaselineTopP

\* C13 as stated: a stuck key raises both the temperature and the top-p of
\* the second call above the baseline; otherwise the second call uses the
\* baseline; the first call always uses the baseline.
C13_AsStated ==
    /\ FirstCallAtBaseline
    /\ turn.second_call.made =>
        IF StuckAfterDispatch
        THEN /\ turn.second_call.temperature > BaselineTemperature
             /\ turn.second_call.top_p > BaselineTopP
        ELSE /\ turn.second_call.temperature = BaselineTemperature
             /\ turn.second_call.top_p = BaselineTopP

\* C13: with a stuck key the second call uses temperature 1.0, above the
\* baseline, and top-p 0.85, below the baseline; otherwise the second call
\* uses the baseline 0.7 and 0.9; the first call always uses the baseline.
C13_StuckSampling ==
    /\ FirstCallAtBaseline
    /\ turn.second_call.made =>
        IF StuckAfterDispatch
        THEN /\ turn.second_call.temperature = 100
             /\ turn.second_call.temperature > BaselineTemperature
             /\ turn.second_call.top_p = 85
             /\ turn.second_call.top_p < BaselineTopP
        ELSE /\ turn.second_call.temperature = 70
             /\ turn.second_call.top_p = 90

\* a third failed attempt on one key has just been answered
C13_Witness ==
    /\ TurnOver
    /\ turn.second_call.made
    /\ StuckAfterDispatch
    /\ attempts_by_problem[TurnKey] = 3
    /\ turn.invoked = "returned"
    /\ turn.function_response.success = FALSE

PathNoCall == <<"AWAIT_MODEL", "DONE">>

PathFull == <<"AWAIT_MODEL", "FUNCTION_REQUESTED", "FUNCTION_EXECUTED",
              "AWAIT_MODEL_FINAL", "DONE">>

PathShortCircuit == <<"AWAIT_MODEL", "FUNCTION_REQUESTED", "DONE">>

PathRaised == <<"AWAIT_MODEL", "FUNCTION_REQUESTED", "RAISED">>

\* the steps of a turn that executes a function, in their order
StepsFull(cleared) ==
    <<"model_call", "record_attempt", "invoke">>
    \o (IF cleared THEN <<"reset_problem">> ELSE <<>>)
    \o <<"append_call", "append_result", "model_call">>

IsPrefix(s, t) == Len(s) <= Len(t) /\ s = SubSeq(t, 1, Len(s))

\* at most two model calls, at most one invocation, the second call without
\* function definitions, and the steps in the order of the full path
CallsAndOrder ==
    /\ Count("model_call") <= 2
    /\ Count("invoke") <= 1
    /\ turn.first_call.made => turn.first_call.functions = FUNCTION_DEFINITIONS
    /\ turn.second_call.made => turn.second_call.functions = {}
    /\ IsPrefix(turn.events, StepsFull(Happened("reset_problem")))

\* C14 as stated: every finished turn has followed one of the two paths.
C14_AsStated ==
    /\ CallsAndOrder
    /\ TurnOver => turn.path \in {PathNoCall, PathFull}

\* C14: every finished turn has followed AWAIT_MODEL -> DONE, the full path
\* through FUNCTION_EXECUTED and AWAIT_MODEL_FINAL, or has ended in
\* FUNCTION_REQUESTED: with the apology for a function name that is not
\* available, or with an exception while the arguments were decoded.  At most
\* two model calls and one invocation happen, the second call carries no
\* function definitions, and the steps keep their order.
C14_TurnPaths ==
    /\ CallsAndOrder
    /\ TurnOver =>
        /\ turn.path \in {PathNoCall, PathFull, PathShortCircuit, PathRaised}
        /\ turn.path = PathNoCall => turn.events = <<"model_call">>
        /\ turn.path = PathFull => turn.events = StepsFull(Happened("reset_problem"))
        /\ turn.path = PathShortCircuit =>
               /\ turn.events = <<"model_call", "record_attempt">>
               /\ turn.function_call.name \notin available_functions
               /\ turn.returned = ApologyUnknownFunction
        /\ turn.path = PathRaised =>
               /\ turn.events = <<"model_call">>
               /\ turn.outcome = "raised"

\* a turn has ended in FUNCTION_REQUESTED with the apology, and before it a
\* turn of the same conversation went the full path
C14_Witness ==
    /\ TurnOver
    /\ turn.path = PathShortCircuit
    /\ Len(turn.start.history) = 4

\* the transcript of a turn that answered without a function call
TranscriptNoCall ==
    turn.start.history \o <<UserEntry(turn.user_message), AssistantEntry(turn.returned)>>

\* the transcript of a turn that dispatched a function
TranscriptDispatched ==
    turn.start.history \o
        <<UserEntry(turn.user_message),
          FunctionCallEntry(turn.function_call.name, turn.function_call.arguments),
          FunctionEntry(turn.function_call.name, turn.function_response),
          AssistantEntry(turn.returned)>>

\* C15: a finished turn whose first reply carried no function call has
\* appended the user message and the reply, and returned the reply; a finished
\* turn that dispatched an available function has appended user message,
\* function_call entry, function entry and final answer, in this order, and
\* returned the final answer; when the invocation raised, the function entry
\* holds the error payload.
C15_TranscriptShape ==
    TurnOver =>
        /\ (turn.first_call.made /\ ~turn.first_call.failed /\ ~RequestedCall) =>
               /\ turn.outcome = "returned"
               /\ conversation_history = TranscriptNoCall
        /\ (RequestedCall /\ turn.function_call.name \in available_functions
            /\ turn.outcome = "returned") =>
               /\ turn.invoked # "no"
               /\ conversation_history = TranscriptDispatched
               /\ turn.invoked = "raised" =>
                      conversation_history[Len(conversation_history) - 1].content =
                          json_dumps([error |-> "Failed to execute "
                                                \o turn.function_call.name])
               /\ turn.invoked = "returned" =>
                      conversation_history[Len(conversation_history) - 1].content =
                          json_dumps(last.result)

\* a turn whose invocation raised has been answered
C15_Witness ==
    /\ TurnOver
    /\ turn.invoked = "raised"
    /\ Len(conversation_history) = Len(turn.start.history) + 4
    /\ conversation_history[Len(conversation_history)].content = "Here is what I found."

\* C16: a finished turn whose first model call failed has returned the
\* connection apology and made no second model call; the transcript is the
\* one chat found plus the user message, and the Attempt Tracker and the
\* Ledger are as chat found them.
C16_FirstCallFailure ==
    (TurnOver /\ turn.first_call.failed) =>
        /\ turn.outcome = "returned"
        /\ turn.returned = "I'm having trouble connecting right now. Please try again in a moment."
        /\ ~turn.second_call.made
        /\ Count("model_call") = 1
        /\ conversation_history = Append(turn.start.history, UserEntry(turn.user_message))
        /\ attempts_by_problem = turn.start.attempts
        /\ current_problem_category = turn.start.current_problem_category
        /\ current_order_id = turn.start.current_order_id
        /\ db = turn.start.db

\* the first call has failed in a conversation with a refund under way and a
\* counter standing
C16_Witness ==
    /\ TurnOver
    /\ turn.first_call.failed
    /\ Has(db.refunds, RefId(ChatOrderId))
    /\ attempts_by_problem # EmptyDict
    /\ Len(conversation_history) > 1

\* what the invocation of the turn makes of the Ledger chat found
LedgerAfterInvocation ==
    invoke(turn.start.db, turn.function_call.name, turn.function_args).db

\* C17: a finished turn whose second model call failed has returned the
\* apology, which is the last transcript entry; the function_call and the
\* function entries of the turn are still before it, and the Ledger and the
\* Attempt Tracker are as the executed operation left them.
C17_SecondCallFailure ==
    (TurnOver /\ turn.second_call.failed) =>
        /\ turn.outcome = "returned"
        /\ turn.returned = "I found the information but had trouble formulating a response. Please try asking again."
        /\ conversation_history = TranscriptDispatched
        /\ db = LedgerAfterInvocation
        /\ attempts_by_problem =
               IF turn.invoked = "returned" /\ reports_success(turn.function_response)
               THEN reset_problem(Recorded, turn.problem_category, turn.order_id)
               ELSE Recorded

\* the second call has failed after a refund was opened in the turn
C17_Witness ==
    /\ TurnOver
    /\ turn.second_call.failed
    /\ turn.function_call.name = "initiate_refund"
    /\ ~Has(turn.start.db.refunds, RefId(ChatOrderId))
    /\ Has(db.refunds, RefId(ChatOrderId))

\* C18: a finished turn whose first reply named a function that is not one
\* of the four declared has returned the apology, invoked nothing, left the
\* Ledger as it was, made no second model call, kept the incremented entry
\* and appended nothing after the user message.
C18_AsStated ==
    (TurnOver /\ RequestedCall /\ turn.function_call.name \notin FUNCTION_DEFINITIONS) =>
        /\ turn.outcome = "returned"
        /\ turn.returned = ApologyUnknownFunction
        /\ turn.invoked = "no"
        /\ db = turn.start.db
        /\ ~turn.second_call.made
        /\ attempts_by_problem = Recorded
        /\ conversation_history = Append(turn.start.history, UserEntry(turn.user_message))

\* a step that does to the Ledger what process_return_receipt does: a Return
\* leaves pending_receipt, a Refund becomes completed, or an Order becomes
\* refund_processing or return_rejected
ReceiptEffect ==
    \/ \E r \in DOMAIN db.returns \cap DOMAIN db'.returns :
          /\ db.returns[r].status = "pending_receipt"
          /\ db'.returns[r].status # "pending_receipt"
    \/ \E f \in DOMAIN db'.refunds :
          /\ db'.refunds[f].status = "completed"
          /\ Has(db.refunds, f) => db.refunds[f].status # "completed"
    \/ \E o \in DOMAIN db.orders \cap DOMAIN db'.orders :
          /\ db'.orders[o].status \in {"refund_processing", "return_rejected"}
          /\ db.orders[o].status # db'.orders[o].status

\* C19: over every conversation, whatever the model replies, a step with the
\* effect of process_return_receipt is the admin command receive_return;
\* no step of chat has it.
C19_ReceiptOnlyByAdmin ==
    [][ReceiptEffect =>
           /\ pc = "IDLE"
           /\ last'.via = "admin"
           /\ last'.op = "process_return_receipt"]_vars

\* the model has asked for process_return_receipt on a Return that chat
\* opened and that is pending, and the turn has ended with the apology
C19_Witness ==
    /\ TurnOver
    /\ turn.function_call.name = "process_return_receipt"
    /\ turn.function_call.arguments.wellformed
    /\ turn.returned = ApologyUnknownFunction
    /\ Has(db.returns, RetId(ChatOrderId))
    /\ db.returns[RetId(ChatOrderId)].status = "pending_receipt"
    /\ db.orders[ChatOrderId].status = "return_requested"

\* C20: chat never lets an exception reach its caller: a turn that is over
\* has returned a string.
C20_AsStated ==
    turn.outcome # "none" =>
        /\ turn.outcome # "raised"
        /\ TurnOver => turn.outcome = "returned" /\ turn.returned # None

(***************************************************************************)
(* Properties of the Ledger and of the results of the operations.          *)
(***************************************************************************)
BusinessOperations ==
    {"check_order_status", "check_tracking", "initiate_return", "check_return_status",
     "initiate_refund", "process_return_receipt"}

\* C21: the result of every call of a Business Operation contains a success
\* flag.
C21_AsStated ==
    last.op \in BusinessOperations => Has(last.result, "success")

\* C22: after a reset the Ledger is the initial one: the ten sample orders as
\* they were seeded, no returns and no refunds, whatever the Ledger was
\* before; and a reset of the reset Ledger changes nothing.
C22_ResetRestores ==
    last.op = "reset" =>
        /\ Cardinality(DOMAIN db.orders) = 10
        /\ \A i \in 1..Len(SampleOrders) :
               db.orders[SampleOrders[i].order_id] = SampleOrders[i]
        /\ db.returns = EmptyDict
        /\ db.refunds = EmptyDict
        /\ db = InMemoryDatabase
        /\ reset(db) = db
        /\ reset(reset(pre)) = reset(pre)

\* a Ledger with a Return, a Refund and a changed order has been reset
C22_Witness ==
    /\ last.op = "reset"
    /\ pre.returns # EmptyDict
    /\ pre.refunds # EmptyDict
    /\ \E o \in DOMAIN pre.orders : pre.orders[o].status # db.orders[o].status

\* a string without its prefix RET-, if it has that prefix
StripPrefix(s) ==
    IF Len(s) >= 4 /\ SubSeq(s, 1, 4) = "RET-" THEN SubSeq(s, 5, Len(s)) ELSE s

\* the order component the claim gives to the key of these arguments
StatedOrderComponent(function_args) ==
    IF Has(function_args, "order_id") THEN function_args["order_id"].s
    ELSE IF Has(function_args, "return_id") THEN StripPrefix(function_args["return_id"].s)
    ELSE "unknown"

\* C23: the order component of the key is the order_id when there is one,
\* else the return_id without its prefix RET-, else "unknown"; and for every
\* order o of the Ledger, check_return_status on RET-o and initiate_refund on
\* o count on the same key.
C23_AsStated ==
    /\ (last.op = "_extract_order_id" /\ ~last.result.raised) =>
           last.result.order_id = StatedOrderComponent(last.args.function_args)
    /\ \A o \in DOMAIN db.orders :
           /\ extract_order_id([return_id |-> JStr(RetId(o))]).value = o
           /\ ProblemKey(determine_problem_category("check_return_status"),
                         extract_order_id([return_id |-> JStr(RetId(o))]).value)
              = ProblemKey(determine_problem_category("initiate_refund"),
                           extract_order_id([order_id |-> JStr(o)]).value)

\* the statuses in which initiate_refund acts on the order
RefundEligible == {"processing", "shipped", "delivered"}

ReturnCreated(o) ==
    /\ Has(db.returns, RetId(o))
    /\ \/ ~Has(pre.returns, RetId(o))
       \/ /\ db.returns[RetId(o)] # pre.returns[RetId(o)]
          /\ db.returns[RetId(o)].status = "pending_receipt"

\* the last call created a Refund: REF-o is new, or was written anew
RefundCreated(o) ==
    /\ Has(db.refunds, RefId(o))
    /\ \/ ~Has(pre.refunds, RefId(o))
       \/ /\ db.refunds[RefId(o)] # pre.refunds[RefId(o)]
          /\ db.refunds[RefId(o)].status \in {"processing", "pending_return"}

\* C25: over the operations chat can call and the admin commands, a Return
\* or a Refund is created for an order only when the order has neither, and
\* only a reset removes one: between two resets an order gets at most one
\* Return and at most one Refund, and no record is overwritten.
C25_OneReturnOneRefund ==
    /\ last.op = "initiate_refund" /\ last.result.success = TRUE =>
           /\ ~Has(pre.returns, RetId(last.args.order_id))
           /\ ~Has(pre.refunds, RefId(last.args.order_id))
    /\ last.op \notin {"init", "reset", "_extract_order_id"} =>
           /\ DOMAIN pre.returns \subseteq DOMAIN db.returns
           /\ DOMAIN pre.refunds \subseteq DOMAIN db.refunds
           /\ \A o \in DOMAIN db.orders :
                  (ReturnCreated(o) \/ RefundCreated(o)) =>
                      /\ last.op = "initiate_refund"
                      /\ last.args.order_id = o
                      /\ ~Has(pre.returns, RetId(o))
                      /\ ~Has(pre.refunds, RefId(o))

\* a second refund was asked for an order that has a Return and a Refund, and
\* both were left as they were
C25_Witness ==
    /\ last.op = "initiate_refund"
    /\ Has(pre.returns, RetId(last.args.order_id))
    /\ Has(pre.refunds, RefId(last.args.order_id))
    /\ ~needs_supervisor(last.args.amount)
    /\ db = pre

\* the status transitions of the claim
LifecycleStep ==
    {<<"processing", "cancelled">>,
     <<"shipped", "return_requested">>,
     <<"delivered", "return_requested">>,
     <<"return_requested", "refund_processing">>,
     <<"return_requested", "return_rejected">>}

\* the statuses an order can have after at most two transitions from status s
WithinTwoSteps(s) ==
    LET one == {s} \cup {t[2] : t \in {u \in LifecycleStep : u[1] = s}}
    IN  one \cup {t[2] : t \in {u \in LifecycleStep : u[1] \in one}}

\* C26: in every step the set of order identifiers stays the same; in every
\* step but a reset each order keeps its status or moves processing ->
\* cancelled, shipped or delivered -> return_requested, or return_requested ->
\* refund_processing or return_rejected, so that cancelled, refund_processing
\* and return_rejected are never left; and the status of an order is at most
\* two transitions away from the one it had at the last reset.
C26_OneWayLifecycle ==
    [][/\ DOMAIN db.orders' = DOMAIN db.orders
       /\ last'.op # "reset" =>
              \A o \in DOMAIN db.orders :
                  /\ \/ db.orders'[o].status = db.orders[o].status
                     \/ <<db.orders[o].status, db.orders'[o].status>> \in LifecycleStep
                  /\ db.orders[o].status \in {"cancelled", "refund_processing",
                                              "return_rejected"} =>
                         db.orders'[o].status = db.orders[o].status
       /\ \A o \in DOMAIN db.orders' :
              db.orders'[o].status \in WithinTwoSteps(InMemoryDatabase.orders[o].status)
      ]_vars

\* one order has been cancelled, and another has gone through return_requested
\* to return_rejected
C26_Witness ==
    /\ db.orders["67890"].status = "cancelled"
    /\ db.orders["12345"].status = "return_rejected"
    /\ last.op # "reset"

\* order o has no Return and no Refund
NoRecords(o) == ~Has(db.returns, RetId(o)) /\ ~Has(db.refunds, RefId(o))

\* order o has Return RET-o in status rs and Refund REF-o in status fs
Records(o, rs, fs) ==
    /\ Has(db.returns, RetId(o))
    /\ db.returns[RetId(o)].status = rs
    /\ Has(db.refunds, RefId(o))
    /\ db.refunds[RefId(o)].status = fs

C28_AsStated ==
    \A f \in DOMAIN db.refunds : AtMost500(db.refunds[f].amount)

\* C29: the conversation reset empties the transcript and the Attempt
\* Tracker and leaves the Ledger as it is, with the Returns and Refunds made
\* in the conversation; the admin command reset_database restores the Ledger
\* and leaves the transcript and the Attempt Tracker as they are.
C29_ResetsIndependent ==
    [][/\ AgentReset =>
              /\ conversation_history' = <<>>
              /\ attempts_by_problem' = EmptyDict
              /\ current_order_id' = None
              /\ current_problem_category' = None
              /\ db' = db
       /\ (AdminInput /\ last'.op = "reset") =>
              /\ db' = InMemoryDatabase
              /\ conversation_history' = conversation_history
              /\ attempts_by_problem' = attempts_by_problem
              /\ current_order_id' = current_order_id
              /\ current_problem_category' = current_problem_category
      ]_vars

\* the conversation has been reset after a turn that made a Refund and a
\* Return, and both are still in the Ledger
C29_Witness ==
    /\ pc = "IDLE"
    /\ steps > 0
    /\ conversation_history = <<>>
    /\ attempts_by_problem = EmptyDict
    /\ Has(db.refunds, RefId(ChatOrderId))
    /\ Has(db.returns, RetId(ChatOrderId))

QueryOperations == {"check_order_status", "check_tracking", "check_return_status"}

MutatingOperations == {"initiate_refund", "initiate_return", "process_return_receipt", "reset"}

\* C30: check_order_status, check_tracking and check_return_status leave the
\* Ledger as it was, for every argument and whether they succeed or fail; a
\* call that changes the Ledger is a call of initiate_refund, of the
\* initiate_return it delegates to, of process_return_receipt or of reset.
C30_QueriesReadOnly ==
    /\ last.op \in QueryOperations => db = pre
    /\ db # pre => last.op \in MutatingOperations

\* check_order_status has succeeded on an order that has a Return and a
\* Refund, and has reported both
C30_Witness ==
    /\ last.op = "check_order_status"
    /\ last.result.success = TRUE
    /\ Has(last.result, "return_info")
    /\ Has(last.result, "refund_info")
    /\ db = pre
    /\ db # InMemoryDatabase

====
